---- MODULE Spec2Model ----
(***************************************************************************)
(* Model of scripts/run_bench.py: main() runs the benchmark binary into a  *)
(* temporary JSON file, loads it, summarizes the records into sorted rows  *)
(* and prints a table.                                                     *)
(*                                                                         *)
(* Strings are sequences of one-character strings, so that split("/"),     *)
(* endswith(...), int(...) and the string ordering are computed and not    *)
(* assumed.  Floating point values are modelled by naturals; the inputs    *)
(* are chosen so that 1e9 / items_per_second is exact.                     *)
(***************************************************************************)
EXTENDS Integers, Sequences, FiniteSets, TLC

VARIABLES
  pc,             \* the statement of main about to run; "exit" when it ended
  binary_exists,  \* Path(args.binary).exists()
  keep_json,      \* args.keep_json
  file,           \* the temporary file: whether it exists, and its text
  returncode,     \* <<>> until the subprocess ended, then <<its code>>
  data,           \* the document returned by load_results
  rows,           \* the rows returned by summarize
  stdout,         \* the lines printed so far
  exc,            \* the exception that is propagating, "none" if none
  raised_in       \* the function that raised it

vars == <<pc, binary_exists, keep_json, file, returncode, data, rows, stdout,
          exc, raised_in>>

\* Longest "benchmarks" array the benchmark binary writes.
MaxBench == 3

Billion == 1000000000

----------------------------------------------------------------------------
(* Strings                                                                 *)

\* Code points of the characters used in the benchmark names.
Ord(c) ==
  CASE c = "/" -> 47
    [] c = "0" -> 48
    [] c = "1" -> 49
    [] c = "9" -> 57
    [] c = "S" -> 83
    [] c = "V" -> 86
    [] c = "_" -> 95
    [] c = "a" -> 97
    [] c = "b" -> 98
    [] c = "c" -> 99
    [] c = "d" -> 100
    [] c = "e" -> 101
    [] c = "i" -> 105
    [] c = "m" -> 109
    [] c = "n" -> 110
    [] c = "r" -> 114
    [] c = "s" -> 115
    [] c = "t" -> 116
    [] c = "v" -> 118
    [] c = "x" -> 120

Digits == {"0", "1", "9"}

DigitVal(c) == Ord(c) - 48

\* str < str: lexicographic by code point, a proper prefix is smaller.
RECURSIVE StrLt(_, _)
StrLt(a, b) ==
  IF b = <<>> THEN FALSE
  ELSE IF a = <<>> THEN TRUE
  ELSE IF Head(a) = Head(b) THEN StrLt(Tail(a), Tail(b))
  ELSE Ord(Head(a)) < Ord(Head(b))

\* name.endswith(suffix)
EndsWith(name, suffix) ==
  /\ Len(name) >= Len(suffix)
  /\ SubSeq(name, Len(name) - Len(suffix) + 1, Len(name)) = suffix

skip_suffixes ==
  { <<"_", "m", "e", "a", "n">>,
    <<"_", "m", "e", "d", "i", "a", "n">>,
    <<"_", "s", "t", "d", "d", "e", "v">>,
    <<"_", "c", "v">> }

\* name.split("/"): always at least one (possibly empty) part.
RECURSIVE SplitFrom(_, _, _)
SplitFrom(name, i, cur) ==
  IF i > Len(name) THEN <<cur>>
  ELSE IF name[i] = "/" THEN <<cur>> \o SplitFrom(name, i + 1, <<>>)
  ELSE SplitFrom(name, i + 1, Append(cur, name[i]))

Split(name) == SplitFrom(name, 1, <<>>)

\* int(size) succeeds on a non-empty run of decimal digits (the only form
\* the characters above can spell); anything else raises ValueError.
IsInt(s) == Len(s) > 0 /\ \A i \in 1..Len(s) : s[i] \in Digits

RECURSIVE IntOf(_)
IntOf(s) ==
  IF s = <<>> THEN 0
  ELSE 10 * IntOf(SubSeq(s, 1, Len(s) - 1)) + DigitVal(s[Len(s)])

\* try: size_value = int(size)  except ValueError: size_value = size
SizeValue(size) ==
  IF IsInt(size) THEN [t |-> "int", i |-> IntOf(size), s |-> <<>>]
  ELSE [t |-> "str", i |-> 0, s |-> size]

----------------------------------------------------------------------------
(* Values read from the JSON document                                      *)

None == [none |-> TRUE, v |-> 0]
Num(n) == [none |-> FALSE, v |-> n]
NaN == [nan |-> TRUE, v |-> 0]
Float(n) == [nan |-> FALSE, v |-> n]

\* bench.get("items_per_second"): None when the key is absent or null.
GetItemsPerSecond(bench) ==
  IF bench.ips_kind = "num" THEN Num(bench.ips) ELSE None

\* Truthiness of items_per_second: None and 0 are false.
Truthy(x) == ~x.none /\ x.v # 0

\* (1e9 / items_per_second) if items_per_second else float("nan")
PerItemNs(items_per_second) ==
  IF Truthy(items_per_second) THEN Float(Billion \div items_per_second.v)
  ELSE NaN

----------------------------------------------------------------------------
(* summarize                                                               *)

\* The two "continue" tests of the loop: an aggregate suffix, or fewer
\* than three parts.
Skipped(name) ==
  \/ \E suffix \in skip_suffixes : EndsWith(name, suffix)
  \/ Len(Split(name)) < 3

\* MakeRow taking the size from the last part, parts[-1], instead of the
\* third.
MakeRowLastPart(bench) ==
  LET parts == Split(bench.name)
      items_per_second == GetItemsPerSecond(bench)
  IN [container |-> parts[1],
      algo |-> parts[2],
      size |-> SizeValue(parts[Len(parts)]),
      total_ns |-> bench.real_time,
      per_item_ns |-> PerItemNs(items_per_second),
      items_per_second |-> items_per_second]

\* The tuple appended for a record that is not skipped.
MakeRow(bench) ==
  LET parts == Split(bench.name)
      items_per_second == GetItemsPerSecond(bench)
  IN [container |-> parts[1],
      algo |-> parts[2],
      size |-> SizeValue(parts[3]),
      total_ns |-> bench.real_time,
      per_item_ns |-> PerItemNs(items_per_second),
      items_per_second |-> items_per_second]

\* for bench in benchmarks: ... rows.append(...)
RECURSIVE CollectRows(_)
CollectRows(benchmarks) ==
  IF benchmarks = <<>> THEN <<>>
  ELSE IF Skipped(Head(benchmarks).name) THEN CollectRows(Tail(benchmarks))
  ELSE <<MakeRow(Head(benchmarks))>> \o CollectRows(Tail(benchmarks))

\* KeyLt for the key (r[0], r[1]), the size left out of the sort key.
KeyLtNoSize(a, b) ==
  IF a.container # b.container
    THEN IF StrLt(a.container, b.container) THEN "true" ELSE "false"
  ELSE IF a.algo # b.algo
    THEN IF StrLt(a.algo, b.algo) THEN "true" ELSE "false"
  ELSE "false"

\* (a[0], a[1], a[2]) < (b[0], b[1], b[2]) on the sort keys: the first
\* position where the tuples differ decides; an int and a str are unequal
\* under == and raise TypeError under <.
KeyLt(a, b) ==
  IF a.container # b.container
    THEN IF StrLt(a.container, b.container) THEN "true" ELSE "false"
  ELSE IF a.algo # b.algo
    THEN IF StrLt(a.algo, b.algo) THEN "true" ELSE "false"
  ELSE IF a.size = b.size THEN "false"
  ELSE IF a.size.t # b.size.t THEN "TypeError"
  ELSE IF a.size.t = "int"
    THEN IF a.size.i < b.size.i THEN "true" ELSE "false"
  ELSE IF StrLt(a.size.s, b.size.s) THEN "true" ELSE "false"

\* list.sort on a short list is a stable binary insertion sort that only
\* uses <.  BinarySearch finds the slot of pivot in lst[1..r] (l and r are
\* zero-based as in the C loop); -1 stands for a comparison that raised.
RECURSIVE BinarySearch(_, _, _, _)
BinarySearch(lst, pivot, l, r) ==
  IF l >= r THEN l
  ELSE LET p == l + ((r - l) \div 2)
           lt == KeyLt(pivot, lst[p + 1])
       IN IF lt = "TypeError" THEN -1
          ELSE IF lt = "true" THEN BinarySearch(lst, pivot, l, p)
          ELSE BinarySearch(lst, pivot, p + 1, r)

RECURSIVE BinarySort(_, _)
BinarySort(lst, start) ==
  IF start >= Len(lst) THEN [ok |-> TRUE, rows |-> lst]
  ELSE LET pivot == lst[start + 1]
           pos == BinarySearch(lst, pivot, 0, start)
       IN IF pos = -1 THEN [ok |-> FALSE, rows |-> <<>>]
          ELSE BinarySort(SubSeq(lst, 1, pos) \o <<pivot>>
                            \o SubSeq(lst, pos + 1, start)
                            \o SubSeq(lst, start + 2, Len(lst)),
                          start + 1)

\* rows.sort(key=lambda r: (r[0], r[1], r[2]))
SortRows(lst) == BinarySort(lst, 1)

\* summarize(benchmarks): [ok |-> TRUE, rows |-> the sorted rows], or
\* ok = FALSE when the sort raised TypeError.
Summarize(benchmarks) == SortRows(CollectRows(benchmarks))

----------------------------------------------------------------------------
(* print_summary                                                           *)

HeaderLine == [kind |-> "header", row |-> <<>>]
RowLine(r) == [kind |-> "row", row |-> <<r>>]
KeptLine == [kind |-> "kept", row |-> <<>>]

\* The f-string of a data row: every field accepts its format spec except
\* items_per_second = None, whose "15.2f" raises TypeError.
Formats(r) == ~r.items_per_second.none

\* The lines print_summary writes, and whether it returned: the header,
\* then the rows in order up to the first one that does not format.
RECURSIVE PrintRows(_)
PrintRows(rs) ==
  IF rs = <<>> THEN [ok |-> TRUE, lines |-> <<>>]
  ELSE IF ~Formats(Head(rs)) THEN [ok |-> FALSE, lines |-> <<>>]
  ELSE LET rest == PrintRows(Tail(rs))
       IN [ok |-> rest.ok, lines |-> <<RowLine(Head(rs))>> \o rest.lines]

\* PrintSummary that prints nothing at all for an empty table.
PrintSummaryNoHeaderWhenEmpty(rs) ==
  LET body == PrintRows(rs)
  IN [ok |-> body.ok,
      lines |-> IF rs = <<>> THEN <<>> ELSE <<HeaderLine>> \o body.lines]

PrintSummary(rs) ==
  LET body == PrintRows(rs)
  IN [ok |-> body.ok, lines |-> <<HeaderLine>> \o body.lines]

----------------------------------------------------------------------------
(* The JSON documents the benchmark binary can leave in the output file    *)

Bench(name, real_time, ips_kind, ips) ==
  [name |-> name, real_time |-> real_time, ips_kind |-> ips_kind, ips |-> ips]

Records ==
  { Bench(<<"V", "/", "b", "/", "9">>, 5, "num", 4),
    Bench(<<"V", "/", "b", "/", "1", "0">>, 6, "num", 5),
    Bench(<<"V", "/", "b", "/", "x">>, 7, "num", 4),
    Bench(<<"V", "/", "b", "/", "9", "/", "r">>, 8, "num", 5),
    Bench(<<"S", "/", "b", "/", "x">>, 9, "absent", 0),
    Bench(<<"S", "/", "b", "/", "9">>, 5, "num", 0),
    Bench(<<"S", "/", "b", "/", "1", "0">>, 6, "null", 0),
    Bench(<<"V", "/", "b", "/", "9", "_", "m", "e", "a", "n">>, 5, "num", 4),
    Bench(<<"V", "/", "b", "/", "9", "_", "m", "e", "d", "i", "a", "n">>, 6, "num", 4),
    Bench(<<"S", "/", "b", "/", "x", "_", "s", "t", "d", "d", "e", "v">>, 7, "absent", 0),
    Bench(<<"V", "/", "b", "/", "9", "_", "c", "v">>, 8, "num", 5),
    Bench(<<"V", "/", "b">>, 9, "num", 4) }

BenchmarkLists == UNION { [1..n -> Records] : n \in 0..MaxBench }

\* An empty file, text that is not JSON, a JSON mapping without the
\* "benchmarks" key, and a mapping with it.
EmptyDoc == [kind |-> "empty", benchmarks |-> <<>>]
GarbageDoc == [kind |-> "garbage", benchmarks |-> <<>>]
NoKeyDoc == [kind |-> "nokey", benchmarks |-> <<>>]
JsonDoc(benchmarks) == [kind |-> "json", benchmarks |-> benchmarks]

NoData == [kind |-> "unset", benchmarks |-> <<>>]

\* What the binary has written when it exits with code.
Written(code) ==
  IF code = 0
    THEN {EmptyDoc, GarbageDoc, NoKeyDoc} \cup { JsonDoc(b) : b \in BenchmarkLists }
    ELSE {EmptyDoc, GarbageDoc}

----------------------------------------------------------------------------
(* main                                                                    *)

Init ==
  /\ pc = "main"
  /\ binary_exists \in BOOLEAN
  /\ keep_json \in BOOLEAN
  /\ file = [exists |-> FALSE, doc |-> EmptyDoc]
  /\ returncode = <<>>
  /\ data = NoData
  /\ rows = <<>>
  /\ stdout = <<>>
  /\ exc = "none"
  /\ raised_in = "none"

\* An uncaught exception ends the run.
Raise(e, where) ==
  /\ exc' = e
  /\ raised_in' = where

\* CheckBinary without the raise: main goes on whatever exists() says.
CheckBinaryNoExit ==
  /\ pc = "main"
  /\ pc' = "mktemp"
  /\ UNCHANGED <<binary_exists, keep_json, file, returncode, data, rows, stdout,
                 exc, raised_in>>

\* if not binary.exists(): raise SystemExit(...)
CheckBinary ==
  /\ pc = "main"
  /\ IF binary_exists
       THEN pc' = "mktemp" /\ UNCHANGED <<exc, raised_in>>
       ELSE pc' = "exit" /\ Raise("SystemExit", "main")
  /\ UNCHANGED <<binary_exists, keep_json, file, returncode, data, rows, stdout>>

\* with tempfile.NamedTemporaryFile(suffix=".json", delete=False) as tmp
CreateTemp ==
  /\ pc = "mktemp"
  /\ file' = [exists |-> TRUE, doc |-> EmptyDoc]
  /\ pc' = "run"
  /\ UNCHANGED <<binary_exists, keep_json, returncode, data, rows, stdout, exc, raised_in>>

\* RunBenchmark with check=False: a non-zero return code is not raised.
RunBenchmarkNoCheck ==
  /\ pc = "run"
  /\ \E code \in {0, 1} : \E doc \in Written(code) :
       /\ returncode' = <<code>>
       /\ file' = [file EXCEPT !.doc = doc]
  /\ pc' = "load"
  /\ UNCHANGED <<binary_exists, keep_json, data, rows, stdout, exc, raised_in>>

\* run_benchmark: subprocess.run(cmd, check=True) waits for the binary and
\* raises CalledProcessError on a non-zero return code.
RunBenchmark ==
  /\ pc = "run"
  /\ \E code \in {0, 1} : \E doc \in Written(code) :
       /\ returncode' = <<code>>
       /\ file' = [file EXCEPT !.doc = doc]
       /\ IF code # 0
            THEN pc' = "finally" /\ Raise("CalledProcessError", "run_benchmark")
            ELSE pc' = "load" /\ UNCHANGED <<exc, raised_in>>
  /\ UNCHANGED <<binary_exists, keep_json, data, rows, stdout>>

\* load_results: json.load raises JSONDecodeError on an empty file or on
\* text that is not JSON.
LoadResults ==
  /\ pc = "load"
  /\ IF file.exists /\ file.doc.kind \in {"json", "nokey"}
       THEN data' = file.doc /\ UNCHANGED <<exc, raised_in>>
       ELSE Raise("JSONDecodeError", "load_results") /\ UNCHANGED data
  /\ pc' = "finally"
  /\ UNCHANGED <<binary_exists, keep_json, file, returncode, rows, stdout>>

\* Finally with the unlink after the try block instead of in a finally
\* clause: it is skipped while an exception propagates.
FinallyOnSuccessOnly ==
  /\ pc = "finally"
  /\ IF ~keep_json /\ file.exists /\ exc = "none"
       THEN file' = [file EXCEPT !.exists = FALSE]
       ELSE UNCHANGED file
  /\ pc' = IF exc # "none" THEN "exit" ELSE "summarize"
  /\ UNCHANGED <<binary_exists, keep_json, returncode, data, rows, stdout, exc, raised_in>>

\* finally: if not args.keep_json and json_path.exists(): json_path.unlink()
\* and then the pending exception, if any, propagates out of main.
Finally ==
  /\ pc = "finally"
  /\ IF ~keep_json /\ file.exists
       THEN file' = [file EXCEPT !.exists = FALSE]
       ELSE UNCHANGED file
  /\ pc' = IF exc # "none" THEN "exit" ELSE "summarize"
  /\ UNCHANGED <<binary_exists, keep_json, returncode, data, rows, stdout, exc, raised_in>>

\* rows = summarize(data["benchmarks"])
CallSummarize ==
  /\ pc = "summarize"
  /\ IF data.kind # "json"
       THEN pc' = "exit" /\ Raise("KeyError", "main") /\ UNCHANGED rows
       ELSE LET result == Summarize(data.benchmarks)
            IN IF result.ok
                 THEN /\ rows' = result.rows
                      /\ pc' = "print"
                      /\ UNCHANGED <<exc, raised_in>>
                 ELSE /\ pc' = "exit"
                      /\ Raise("TypeError", "summarize")
                      /\ UNCHANGED rows
  /\ UNCHANGED <<binary_exists, keep_json, file, returncode, data, stdout>>

\* print_summary(rows)
CallPrintSummary ==
  /\ pc = "print"
  /\ LET printed == PrintSummary(rows)
     IN /\ stdout' = stdout \o printed.lines
        /\ IF printed.ok
             THEN pc' = "report" /\ UNCHANGED <<exc, raised_in>>
             ELSE pc' = "exit" /\ Raise("TypeError", "print_summary")
  /\ UNCHANGED <<binary_exists, keep_json, file, returncode, data, rows>>

\* ReportKept without the test of keep_json.
ReportKeptAlways ==
  /\ pc = "report"
  /\ stdout' = Append(stdout, KeptLine)
  /\ pc' = "exit"
  /\ UNCHANGED <<binary_exists, keep_json, file, returncode, data, rows, exc, raised_in>>

\* if args.keep_json: print(f"\nJSON results kept at: {json_path}")
ReportKept ==
  /\ pc = "report"
  /\ stdout' = IF keep_json THEN Append(stdout, KeptLine) ELSE stdout
  /\ pc' = "exit"
  /\ UNCHANGED <<binary_exists, keep_json, file, returncode, data, rows, exc, raised_in>>

Next ==
  \/ CheckBinary
  \/ CreateTemp
  \/ RunBenchmark
  \/ LoadResults
  \/ Finally
  \/ CallSummarize
  \/ CallPrintSummary
  \/ ReportKept

Spec == Init /\ [][Next]_vars

TypeOK ==
  /\ pc \in {"main", "mktemp", "run", "load", "finally", "summarize", "print", "report", "exit"}
  /\ exc \in {"none", "SystemExit", "CalledProcessError", "JSONDecodeError", "KeyError", "TypeError"}
  /\ raised_in \in {"none", "main", "run_benchmark", "load_results", "summarize", "print_summary"}

----------------------------------------------------------------------------
(* Vocabulary of the properties, stated on the record names themselves     *)

\* summarize was called on the loaded benchmarks / it returned its rows.
SummarizeCalled == data.kind = "json" /\ pc \in {"print", "report", "exit"}
SummarizeReturned == SummarizeCalled /\ raised_in # "summarize"

ReservedSuffixes ==
  { <<"_", "m", "e", "a", "n">>, <<"_", "m", "e", "d", "i", "a", "n">>,
    <<"_", "s", "t", "d", "d", "e", "v">>, <<"_", "c", "v">> }

HasSuffix(name, s) ==
  /\ Len(name) >= Len(s)
  /\ \A i \in 1..Len(s) : name[Len(name) - Len(s) + i] = s[i]

Slashes(name) == { i \in 1..Len(name) : name[i] = "/" }

\* The two exclusion rules: k slashes make k + 1 segments.
Excluded(name) ==
  \/ \E s \in ReservedSuffixes : HasSuffix(name, s)
  \/ Cardinality(Slashes(name)) < 2

Survivors(benchmarks) ==
  { i \in 1..Len(benchmarks) : ~Excluded(benchmarks[i].name) }

\* Position of the k-th slash; 0 before the name, Len + 1 after it.
SlashPos(name, k) ==
  IF k = 0 THEN 0
  ELSE IF k > Cardinality(Slashes(name)) THEN Len(name) + 1
  ELSE CHOOSE p \in Slashes(name) :
         Cardinality({ q \in Slashes(name) : q < p }) = k - 1

\* The k-th '/'-separated segment of a name.
Segment(name, k) == SubSeq(name, SlashPos(name, k - 1) + 1, SlashPos(name, k) - 1)

AllDigits(seg) == seg # <<>> /\ \A i \in 1..Len(seg) : seg[i] \in {"0", "1", "9"}

RECURSIVE Decimal(_, _)
Decimal(seg, acc) ==
  IF seg = <<>> THEN acc
  ELSE Decimal(Tail(seg), 10 * acc + (Ord(Head(seg)) - Ord("0")))

\* row is the row of bench: the first three segments, the size as an
\* integer when it is one, the total time copied.
DerivedFrom(row, bench) ==
  /\ row.container = Segment(bench.name, 1)
  /\ row.algo = Segment(bench.name, 2)
  /\ IF AllDigits(Segment(bench.name, 3))
       THEN row.size.t = "int" /\ row.size.i = Decimal(Segment(bench.name, 3), 0)
       ELSE row.size.t = "str" /\ row.size.s = Segment(bench.name, 3)
  /\ row.total_ns = bench.real_time

Falsy(bench) == bench.ips_kind \in {"absent", "null"} \/ bench.ips = 0

\* Lexicographic order of strings by code point.
StrLess(a, b) ==
  \E k \in 1..(Len(b)) :
    /\ k <= Len(a) + 1
    /\ \A i \in 1..(k - 1) : a[i] = b[i]
    /\ (k = Len(a) + 1 \/ Ord(a[k]) < Ord(b[k]))

SameKey(a, b) == a.container = b.container /\ a.algo = b.algo /\ a.size = b.size

\* (A.container, A.algorithm, A.size) < (B.container, B.algorithm, B.size):
\* strings lexicographically, integer sizes numerically.
KeyBefore(a, b) ==
  \/ StrLess(a.container, b.container)
  \/ a.container = b.container /\ StrLess(a.algo, b.algo)
  \/ /\ a.container = b.container
     /\ a.algo = b.algo
     /\ \/ a.size.t = "int" /\ b.size.t = "int" /\ a.size.i < b.size.i
        \/ a.size.t = "str" /\ b.size.t = "str" /\ StrLess(a.size.s, b.size.s)

KeptReported == \E i \in 1..Len(stdout) : stdout[i].kind = "kept"
NotKept(line) == line.kind # "kept"
SubprocessFailed == returncode # <<>> /\ returncode[1] # 0

----------------------------------------------------------------------------
(* Properties                                                              *)

\* C1: in a run that got past the executable check, the temporary file is
\* gone when the run ends, on every exit path, unless keep-json was asked;
\* with keep-json the file, once created, is never removed by the run.
C1_TempFileScoped ==
  /\ (pc = "exit" /\ binary_exists /\ ~keep_json) => ~file.exists
  /\ (keep_json /\ binary_exists /\ pc \notin {"main", "mktemp"}) => file.exists

C1_Witness ==
  /\ pc = "exit"
  /\ ~keep_json
  /\ exc = "JSONDecodeError"
  /\ ~file.exists

\* C2: when a row returned by summarize has a missing (absent or null) or
\* zero items_per_second, print_summary completes without error and the
\* per-item time of the row is not-a-number.
C2_MissingThroughputNonFatal ==
  (SummarizeReturned /\ \E i \in Survivors(data.benchmarks) : Falsy(data.benchmarks[i]))
    => /\ raised_in # "print_summary"
       /\ \A k \in 1..Len(rows) :
            (rows[k].items_per_second.none \/ rows[k].items_per_second.v = 0)
              => rows[k].per_item_ns.nan

\* C3: an unparsable size is never fatal: summarize returns, and the record
\* has a row whose size is the original string.
C3_UnparsableSizeNonFatal ==
  SummarizeCalled =>
    \A i \in Survivors(data.benchmarks) :
      ~AllDigits(Segment(data.benchmarks[i].name, 3))
        => /\ SummarizeReturned
           /\ \E k \in 1..Len(rows) : DerivedFrom(rows[k], data.benchmarks[i])

\* C4: when the benchmark process exits non-zero the run stops: summarize
\* and print_summary are not reached, nothing is printed, and the run ends
\* with the failure.
C4_SubprocessFailureFatal ==
  SubprocessFailed =>
    /\ pc \in {"finally", "exit"}
    /\ exc = "CalledProcessError"
    /\ rows = <<>>
    /\ stdout = <<>>

C4_Witness == SubprocessFailed /\ pc = "exit" /\ exc = "CalledProcessError"

\* C5: when the executable does not exist the run ends with a fatal error
\* and neither the subprocess is launched nor the temporary file created.
C5_MissingBinaryFatal ==
  ~binary_exists =>
    /\ returncode = <<>>
    /\ ~file.exists
    /\ pc \in {"main", "exit"}
    /\ pc = "exit" => exc = "SystemExit"

C5_Witness == ~binary_exists /\ pc = "exit" /\ exc = "SystemExit"

\* C6 as stated: for any two rows returned by summarize, A precedes B if
\* and only if key(A) < key(B).
C6_PrecedesIffKeyLess ==
  SummarizeReturned =>
    \A i, j \in 1..Len(rows) : (i < j) <=> KeyBefore(rows[i], rows[j])

\* C6 amended: for any two rows returned by summarize, key(A) < key(B)
\* implies that A precedes B, and A preceding B implies key(A) < key(B) or
\* key(A) = key(B).
C6_SortedByKey ==
  SummarizeReturned =>
    \A i, j \in 1..Len(rows) :
      /\ KeyBefore(rows[i], rows[j]) => i < j
      /\ i < j => (KeyBefore(rows[i], rows[j]) \/ SameKey(rows[i], rows[j]))

\* The input V/b/10, V/b/9, V/b/9/r: the two rows of size 9 come first, in
\* input order, and size 10 last.
C6_Witness ==
  /\ SummarizeReturned
  /\ Len(data.benchmarks) = 3
  /\ data.benchmarks[1].real_time = 6
  /\ Len(rows) = 3
  /\ rows[1].total_ns = 5 /\ rows[2].total_ns = 8 /\ rows[3].total_ns = 6
  /\ SameKey(rows[1], rows[2])
  /\ rows[3].size.i = 10

\* C7: for every sequence of records summarize returns as many rows as
\* there are records matching neither exclusion rule.
C7_RowCount ==
  SummarizeCalled =>
    /\ SummarizeReturned
    /\ Len(rows) = Len(data.benchmarks)
                     - Cardinality({ i \in 1..Len(data.benchmarks) :
                                       Excluded(data.benchmarks[i].name) })

\* C8: with an empty benchmarks array summarize and print_summary succeed
\* and the table is the header line alone.
C8_EmptyInputHeaderOnly ==
  (data.kind = "json" /\ data.benchmarks = <<>>) =>
    /\ raised_in = "none"
    /\ rows = <<>>
    /\ pc \in {"report", "exit"} => SelectSeq(stdout, NotKept) = <<HeaderLine>>

C8_Witness ==
  /\ data.kind = "json" /\ data.benchmarks = <<>>
  /\ pc = "report"
  /\ stdout = <<HeaderLine>>

\* C9: the rows returned by summarize are, one for one, the rows of distinct
\* surviving records: first, second and third segment (segments after the
\* third ignored), integer size when it parses, real_time unchanged.
C9_RowsDerivedFromRecords ==
  SummarizeReturned =>
    \E f \in [1..Len(rows) -> Survivors(data.benchmarks)] :
      /\ \A k, m \in 1..Len(rows) : f[k] = f[m] => k = m
      /\ \A k \in 1..Len(rows) : DerivedFrom(rows[k], data.benchmarks[f[k]])

\* A name with a fourth segment and a name with a textual size, with a
\* record that is filtered out.
C9_Witness ==
  /\ SummarizeReturned
  /\ Len(data.benchmarks) = 3
  /\ Len(rows) = 2
  /\ \E k \in 1..2 : rows[k].total_ns = 8 /\ rows[k].size.i = 9
  /\ \E k \in 1..2 : rows[k].size.t = "str"

\* C10: the kept-path line is printed only with keep-json, after the
\* subprocess succeeded, the JSON was loaded and the whole table was
\* printed, and the file then exists; with keep-json and a failed subprocess
\* or load the file stays and its path is not printed.
C10_KeptPathReported ==
  /\ KeptReported =>
       /\ keep_json
       /\ returncode = <<0>>
       /\ data.kind = "json"
       /\ raised_in = "none"
       /\ file.exists
       /\ stdout = <<HeaderLine>> \o [k \in 1..Len(rows) |-> RowLine(rows[k])]
                     \o <<KeptLine>>
  /\ (keep_json /\ raised_in \in {"run_benchmark", "load_results"}) =>
       file.exists /\ ~KeptReported

C10_Witness == KeptReported /\ Len(rows) >= 2 /\ file.exists

====
